---- MODULE Spec2Model ----
(***************************************************************************)
(* A model of demo_x.py, the neural style transfer script: the image       *)
(* preprocessing and its inverse, the batch layout of the input tensor and *)
(* the feature slices taken from it, the style and total variation losses, *)
(* the Evaluator bridge between the joint loss/gradient computation and    *)
(* the optimizer, and the fixed-budget optimisation loop.                  *)
(***************************************************************************)
EXTENDS Integers, Sequences, FiniteSets, TLC

VARIABLES
    \* ---- Evaluator object (demo_x.py 296-316)
    loss_value,     \* self.loss_value: None or the pending loss
    grad_values,    \* self.grad_values: Unset until the first loss call
    grads_values,   \* self.grads_values: the attribute __init__ really sets
    ret,            \* the last call made on the evaluator: what was called,
                    \* whether it raised, how often it ran f_outputs, its result
    nEval,          \* number of runs of eval_loss_and_grads (f_outputs)
    nLoss,          \* number of accepted loss calls
    nCalls,         \* number of calls made on the evaluator, rejected included
    pendingX,       \* the x of the accepted loss call whose result is pending
    trace,          \* names of the accepted calls, in order
    \* ---- optimisation loop (demo_x.py 325-348)
    pc,             \* where the script is
    i,              \* outer iterations completed
    x,              \* the combination vector
    min_val,        \* loss value returned by the last optimizer invocation
    info,           \* status returned by the last optimizer invocation
    optX,           \* the point the running optimizer invocation evaluates
    optX0,          \* the vector the running invocation was started on
    nfev,           \* loss evaluations made by the running invocation
    nInvoke,        \* optimizer invocations started
    nFinal,         \* runs of the final de-preprocessing
    rogue,          \* an invocation has returned with a loss call unanswered
    \* ---- preprocessing of one pixel and its inverse (demo_x.py 75-110, 343-348)
    img,            \* the loaded 8-bit pixel, <<R, G, B>>
    arr,            \* the pixel in the array being transformed
    dtype,          \* the element type of that array
    ppc,            \* the statement reached
    out,            \* the 8-bit pixel of the final image
    \* ---- input tensor and feature slices (demo_x.py 117-130, 194-249)
    content_image,  \* backend variables holding the preprocessed images
    style_image,
    style_image2,
    input_tensor,   \* the batch: a sequence of images
    bpc,            \* the statement reached
    layerIdx,       \* style layers processed
    content_image_features,
    combination_features,
    style_features,
    style_features2,
    terms,          \* the terms added to the loss so far
    \* ---- style loss of two feature maps (demo_x.py 213-230)
    styleFeat,      \* feature map of a style image, [h][w][c]
    comboFeat,      \* feature map of the combination image
    sl,             \* the value style_loss returned, as a fraction
    spc,
    \* ---- total variation loss of an image (demo_x.py 262-265)
    tvx,            \* the image, [h][w][c]
    tv,             \* the value total_variation_loss returned
    tpc

evVars == <<loss_value, grad_values, grads_values, ret, nEval, nLoss, nCalls,
            pendingX, trace>>

drvVars == <<pc, i, x, min_val, info, optX, optX0, nfev, nInvoke, nFinal, rogue>>

ppVars == <<img, arr, dtype, ppc, out>>

btVars == <<content_image, style_image, style_image2, input_tensor, bpc,
            layerIdx, content_image_features, combination_features,
            style_features, style_features2, terms>>

slVars == <<styleFeat, comboFeat, sl, spc>>

tvVars == <<tvx, tv, tpc>>

\* The state of the parts that are exercised on their own inputs.
pureVars == <<ppVars, btVars, slVars, tvVars>>

vars == <<evVars, drvVars, pureVars>>

-----------------------------------------------------------------------------
(* Values *)

\* Python's None, and an optional value holding v.
None == <<>>
Some(v) == <<v>>
\* An attribute that was never assigned (reading it raises AttributeError).
Unset == <<"unset">>

\* Bound on the abstract optimisation vectors: x is one of 0..MaxX.
MaxX == 2
XVals == 0..MaxX
\* Bound on the number of calls a free caller makes on the evaluator.
MaxCalls == 5

-----------------------------------------------------------------------------
(* eval_loss_and_grads: the joint computation by the compiled backend      *)
(* function f_outputs. The network is external; the loss surface is a      *)
(* parabola here, whose gradient identifies the point it was taken at.     *)

LossAt(xx) == (xx - 1) * (xx - 1)
GradAt(xx) == 2 * (xx - 1)

eval_loss_and_grads(xx) == <<LossAt(xx), GradAt(xx)>>

-----------------------------------------------------------------------------
(* class Evaluator *)

Evaluator_init ==
    /\ loss_value = None
    /\ grad_values = Unset
    /\ grads_values = None

\* Mutant: the assertion of loss is dropped.
Evaluator_loss_NoAssert(xx) ==
    LET outs == eval_loss_and_grads(xx) IN
    /\ loss_value' = Some(outs[1])
    /\ grad_values' = Some(outs[2])
    /\ ret' = [op |-> "loss", arg |-> xx, raised |-> FALSE, computed |-> 1,
               value |-> Some(outs[1])]
    /\ UNCHANGED grads_values

\* Mutant: loss computes and stores before it asserts.
Evaluator_loss_LateAssert(xx) ==
    LET outs == eval_loss_and_grads(xx) IN
    /\ loss_value' = Some(outs[1])
    /\ grad_values' = Some(outs[2])
    /\ ret' = [op |-> "loss", arg |-> xx, raised |-> loss_value # None,
               computed |-> 1,
               value |-> IF loss_value = None THEN Some(outs[1]) ELSE None]
    /\ UNCHANGED grads_values

\* Evaluator.loss(x): assert, compute jointly, store both, return the loss.
Evaluator_loss(xx) ==
    IF loss_value = None
    THEN LET outs == eval_loss_and_grads(xx) IN
         /\ loss_value' = Some(outs[1])
         /\ grad_values' = Some(outs[2])
         /\ ret' = [op |-> "loss", arg |-> xx, raised |-> FALSE,
                    computed |-> 1, value |-> Some(outs[1])]
         /\ UNCHANGED grads_values
    ELSE /\ ret' = [op |-> "loss", arg |-> xx, raised |-> TRUE,
                    computed |-> 0, value |-> None]
         /\ UNCHANGED <<loss_value, grad_values, grads_values>>

\* Mutant: grads recomputes the gradient at its own argument.
Evaluator_grads_Recompute(xx) ==
    IF loss_value # None
    THEN /\ ret' = [op |-> "grads", arg |-> xx, raised |-> FALSE,
                    computed |-> 1,
                    value |-> Some(eval_loss_and_grads(xx)[2])]
         /\ loss_value' = None
         /\ grad_values' = None
         /\ UNCHANGED grads_values
    ELSE /\ ret' = [op |-> "grads", arg |-> xx, raised |-> TRUE,
                    computed |-> 0, value |-> None]
         /\ UNCHANGED <<loss_value, grad_values, grads_values>>

\* Mutant: grads returns the cache without clearing the pending loss.
Evaluator_grads_NoClear(xx) ==
    IF loss_value # None
    THEN /\ ret' = [op |-> "grads", arg |-> xx, raised |-> FALSE,
                    computed |-> 0, value |-> grad_values]
         /\ UNCHANGED <<loss_value, grad_values, grads_values>>
    ELSE /\ ret' = [op |-> "grads", arg |-> xx, raised |-> TRUE,
                    computed |-> 0, value |-> None]
         /\ UNCHANGED <<loss_value, grad_values, grads_values>>

\* Evaluator.grads(x): assert, copy the cached gradient, clear both, return
\* the copy. The argument is not read.
Evaluator_grads(xx) ==
    IF loss_value # None
    THEN /\ ret' = [op |-> "grads", arg |-> xx, raised |-> FALSE,
                    computed |-> 0, value |-> grad_values]
         /\ loss_value' = None
         /\ grad_values' = None
         /\ UNCHANGED grads_values
    ELSE /\ ret' = [op |-> "grads", arg |-> xx, raised |-> TRUE,
                    computed |-> 0, value |-> None]
         /\ UNCHANGED <<loss_value, grad_values, grads_values>>

NoCall ==
    [op |-> "none", arg |-> 0, raised |-> FALSE, computed |-> 0, value |-> None]

\* evaluator = Evaluator(), with the bookkeeping of the calls at zero.
EvaluatorFresh ==
    /\ Evaluator_init
    /\ ret = NoCall
    /\ nEval = 0
    /\ nLoss = 0
    /\ nCalls = 0
    /\ pendingX = None
    /\ trace = <<>>

\* The optimisation loop before it starts: x = random noise, no invocation yet.
DriverFresh ==
    /\ pc = "loop"
    /\ i = 0
    /\ x \in XVals
    /\ min_val = None
    /\ info = None
    /\ optX = 0
    /\ optX0 = 0
    /\ nfev = 0
    /\ nInvoke = 0
    /\ nFinal = 0
    /\ rogue = FALSE

\* The loop not taking part: the evaluator is exercised on its own.
DriverIdle ==
    /\ pc = "idle"
    /\ i = 0
    /\ x = 0
    /\ min_val = None
    /\ info = None
    /\ optX = 0
    /\ optX0 = 0
    /\ nfev = 0
    /\ nInvoke = 0
    /\ nFinal = 0
    /\ rogue = FALSE

\* The preprocessing not taking part.
PreprocessIdle ==
    /\ img = <<0, 0, 0>>
    /\ arr = <<>>
    /\ dtype = "none"
    /\ ppc = "idle"
    /\ out = <<>>

\* No image: the placeholder of an array that is not there.
NoImage == [role |-> "none", data |-> 0]
NoFeature == [layer |-> "none", of |-> NoImage]

\* The graph construction not taking part.
BatchIdle ==
    /\ content_image = NoImage
    /\ style_image = NoImage
    /\ style_image2 = NoImage
    /\ input_tensor = <<>>
    /\ bpc = "idle"
    /\ layerIdx = 0
    /\ content_image_features = NoFeature
    /\ combination_features = NoFeature
    /\ style_features = NoFeature
    /\ style_features2 = NoFeature
    /\ terms = <<>>

\* The style loss not taking part.
StyleIdle ==
    /\ styleFeat = <<>>
    /\ comboFeat = <<>>
    /\ sl = None
    /\ spc = "idle"

\* The total variation loss not taking part.
TVIdle ==
    /\ tvx = <<>>
    /\ tv = None
    /\ tpc = "idle"

PureIdle == PreprocessIdle /\ BatchIdle /\ StyleIdle /\ TVIdle

-----------------------------------------------------------------------------
(* The evaluator under a caller that makes any calls in any order and      *)
(* survives the AssertionError of a rejected one.                          *)

CallLoss ==
    /\ nCalls < MaxCalls
    /\ \E xx \in XVals :
        /\ Evaluator_loss(xx)
        /\ nEval' = nEval + ret'.computed
        /\ nCalls' = nCalls + 1
        /\ nLoss' = IF ret'.raised THEN nLoss ELSE nLoss + 1
        /\ pendingX' = IF ret'.raised THEN pendingX ELSE Some(xx)
        /\ trace' = IF ret'.raised THEN trace ELSE Append(trace, "loss")
    /\ UNCHANGED <<drvVars, pureVars>>

CallGrads ==
    /\ nCalls < MaxCalls
    /\ \E xx \in XVals :
        /\ Evaluator_grads(xx)
        /\ nEval' = nEval + ret'.computed
        /\ nCalls' = nCalls + 1
        /\ pendingX' = IF ret'.raised THEN pendingX ELSE None
        /\ trace' = IF ret'.raised THEN trace ELSE Append(trace, "grads")
        /\ UNCHANGED nLoss
    /\ UNCHANGED <<drvVars, pureVars>>

InitEval == EvaluatorFresh /\ DriverIdle /\ PureIdle

NextEval == CallLoss \/ CallGrads

SpecEval == InitEval /\ [][NextEval]_vars

-----------------------------------------------------------------------------
(* Claims about the Evaluator under SpecEval *)

Alternates(t) ==
    \A k \in 1..Len(t) : t[k] = IF k % 2 = 1 THEN "loss" ELSE "grads"

\* C1: grads(x) with no loss result pending (also before the first loss call)
\* raises, loss(x) with a loss result pending raises, and so the accepted
\* calls alternate loss, grads, loss, grads, ... starting with loss.
C1_Protocol ==
    [][ /\ (ret'.op = "grads" /\ loss_value = None) => ret'.raised
        /\ (ret'.op = "loss" /\ loss_value # None) => ret'.raised
        /\ Alternates(trace') ]_vars

\* A loss call was rejected after a full loss, grads, loss round, two of the
\* five calls made having been rejected.
C1_Witness ==
    /\ ret.op = "loss"
    /\ ret.raised
    /\ trace = <<"loss", "grads", "loss">>
    /\ nCalls = 5

\* C2: an accepted loss(x) runs the joint computation once and caches the
\* gradient at x; the following grads(x') computes nothing, returns the
\* gradient at x whatever x' is, and leaves both the pending loss and the
\* pending gradient empty; the computations number the accepted loss calls.
C2_ComputeOnceAndCache ==
    [][ /\ (ret'.op = "loss" /\ ~ret'.raised) =>
              /\ nEval' = nEval + 1
              /\ ret'.value = Some(LossAt(ret'.arg))
              /\ grad_values' = Some(GradAt(ret'.arg))
        /\ (ret'.op = "grads" /\ ~ret'.raised) =>
              /\ nEval' = nEval
              /\ pendingX # None
              /\ ret'.value = Some(GradAt(pendingX[1]))
              /\ loss_value' = None
              /\ grad_values' = None
        /\ nEval' = nLoss' ]_vars

\* grads was accepted and returned a gradient that is not the gradient at
\* the argument it was called with.
C2_Witness ==
    /\ ret.op = "grads"
    /\ ~ret.raised
    /\ ret.value # Some(GradAt(ret.arg))
    /\ loss_value = None
    /\ grad_values = None

\* C10: a rejected call changes nothing of the evaluator and computes
\* nothing; after a rejected loss, grads still returns the gradient of the
\* earlier accepted loss; after a rejected grads, loss is accepted.
C10_RejectedCallIsInert ==
    [][ /\ ret'.raised =>
              /\ loss_value' = loss_value
              /\ grad_values' = grad_values
              /\ grads_values' = grads_values
              /\ nEval' = nEval
        /\ (ret.raised /\ ret.op = "loss" /\ ret'.op = "grads") =>
              /\ ~ret'.raised
              /\ ret'.value = Some(GradAt(pendingX[1]))
        /\ (ret.raised /\ ret.op = "grads" /\ ret'.op = "loss") =>
              ~ret'.raised ]_vars

\* A loss call at another x was rejected and the pending result is intact.
C10_Witness ==
    /\ ret.op = "loss"
    /\ ret.raised
    /\ pendingX # None
    /\ pendingX # Some(ret.arg)
    /\ loss_value = Some(LossAt(pendingX[1]))
    /\ grad_values = Some(GradAt(pendingX[1]))

-----------------------------------------------------------------------------
(* The optimisation loop: iterations runs of fmin_l_bfgs_b on the shared   *)
(* evaluator, then the de-preprocessing of the final vector.               *)

iterations == 20
maxfun == 20

\* Status values of fmin_l_bfgs_b (info['warnflag']): 0 converged, 1 too
\* many function evaluations or iterations, 2 stopped for another reason.
WarnFlags == {0, 1, 2}

callVars == <<nEval, nLoss, nCalls, pendingX, trace>>

\* Mutant: the loop ends as soon as an invocation reports a failure status.
LoopExit_OnFailure ==
    /\ pc = "loop"
    /\ i = iterations \/ (info # None /\ info # Some(0))
    /\ pc' = "final"
    /\ UNCHANGED <<i, x, min_val, info, optX, optX0, nfev, nInvoke, nFinal, rogue>>
    /\ UNCHANGED <<evVars, pureVars>>

\* for i in range(iterations): the body starts fmin_l_bfgs_b on x.flatten().
LoopEnter ==
    /\ pc = "loop"
    /\ i < iterations
    /\ pc' = "optLoss"
    /\ optX' = x
    /\ optX0' = x
    /\ nfev' = 0
    /\ nInvoke' = nInvoke + 1
    /\ UNCHANGED <<i, x, min_val, info, nFinal, rogue>>
    /\ UNCHANGED <<evVars, pureVars>>

\* The range is exhausted: the script goes on to the final image.
LoopExit ==
    /\ pc = "loop"
    /\ i = iterations
    /\ pc' = "final"
    /\ UNCHANGED <<i, x, min_val, info, optX, optX0, nfev, nInvoke, nFinal, rogue>>
    /\ UNCHANGED <<evVars, pureVars>>

\* The optimizer evaluates the objective: evaluator.loss(optX). An
\* AssertionError leaves fmin_l_bfgs_b and ends the script.
OptLoss ==
    /\ pc = "optLoss"
    /\ Evaluator_loss(optX)
    /\ nfev' = nfev + 1
    /\ pc' = IF ret'.raised THEN "crashed" ELSE "optGrads"
    /\ UNCHANGED <<i, x, min_val, info, optX, optX0, nInvoke, nFinal, rogue>>
    /\ UNCHANGED <<callVars, pureVars>>

\* The optimizer asks for the gradient at the same point: evaluator.grads(optX).
OptGrads ==
    /\ pc = "optGrads"
    /\ Evaluator_grads(optX)
    /\ pc' = IF ret'.raised THEN "crashed" ELSE "optStep"
    /\ UNCHANGED <<i, x, min_val, info, optX, optX0, nfev, nInvoke, nFinal, rogue>>
    /\ UNCHANGED <<callVars, pureVars>>

\* The optimizer moves to another point, within its evaluation cap.
OptStep ==
    /\ pc = "optStep"
    /\ nfev < maxfun
    /\ \E xx \in XVals : optX' = xx
    /\ pc' = "optLoss"
    /\ UNCHANGED <<i, x, min_val, info, optX0, nfev, nInvoke, nFinal, rogue>>
    /\ UNCHANGED <<evVars, pureVars>>

\* fmin_l_bfgs_b returns (x, min_val, info), with any status; the loop body
\* prints and the next iteration follows.
OptReturn ==
    /\ pc = "optStep"
    /\ \E xx \in XVals, w \in WarnFlags :
        /\ (w = 1) => (nfev = maxfun)
        /\ x' = xx
        /\ min_val' = Some(LossAt(xx))
        /\ info' = Some(w)
    /\ i' = i + 1
    /\ pc' = "loop"
    /\ UNCHANGED <<optX, optX0, nfev, nInvoke, nFinal, rogue>>
    /\ UNCHANGED <<evVars, pureVars>>

\* An optimizer that breaks the calling convention: it returns right after
\* a loss call, without the matching gradient call.
OptReturnAfterLoss ==
    /\ pc = "optGrads"
    /\ \E xx \in XVals, w \in WarnFlags :
        /\ x' = xx
        /\ min_val' = Some(LossAt(xx))
        /\ info' = Some(w)
    /\ i' = i + 1
    /\ pc' = "loop"
    /\ rogue' = TRUE
    /\ UNCHANGED <<optX, optX0, nfev, nInvoke, nFinal>>
    /\ UNCHANGED <<evVars, pureVars>>

\* The final vector is reshaped and de-preprocessed into the result image.
FinalImage ==
    /\ pc = "final"
    /\ nFinal' = nFinal + 1
    /\ pc' = "done"
    /\ UNCHANGED <<i, x, min_val, info, optX, optX0, nfev, nInvoke, rogue>>
    /\ UNCHANGED <<evVars, pureVars>>

InitDriver == EvaluatorFresh /\ DriverFresh /\ PureIdle

NextDriver ==
    \/ LoopEnter
    \/ LoopExit
    \/ OptLoss
    \/ OptGrads
    \/ OptStep
    \/ OptReturn
    \/ FinalImage

\* The script runs to its end: it is one sequential process.
SpecDriver == InitDriver /\ [][NextDriver]_vars /\ WF_vars(NextDriver)

NextDriverAny == NextDriver \/ OptReturnAfterLoss

SpecDriverAny == InitDriver /\ [][NextDriverAny]_vars

C9_SharedEvaluator ==
    /\ ~rogue =>
          /\ pc # "crashed"
          /\ (pc \in {"loop", "final", "done"}) => loss_value = None
          /\ (pc = "optLoss" /\ nfev = 0) => loss_value = None
          /\ (pc = "optStep") =>
                (ret.op = "grads" /\ ~ret.raised /\ ret.value = Some(GradAt(optX)))
    /\ rogue =>
          /\ loss_value # None
          /\ pc \in {"loop", "optLoss", "crashed", "final", "done"}
          /\ (pc = "optLoss") => nfev = 0
    /\ (pc = "crashed") =>
          (rogue /\ ret.op = "loss" /\ ret.raised /\ nfev = 1)

\* All iterations but the last two kept the convention, the next one
\* returned with a loss call unanswered, and the last one's first loss call
\* failed.
C9_Witness ==
    /\ pc = "crashed"
    /\ rogue
    /\ i = iterations - 1
    /\ ret.op = "loss"
    /\ ret.raised

-----------------------------------------------------------------------------
(* Preprocessing and its inverse, followed on one pixel: the statements    *)
(* index whole channel planes, so every pixel goes the same way.           *)
(*                                                                         *)
(* Array elements are binary floating point numbers. An element is a       *)
(* record [u, m] standing for (u + m/1000) * 2^-17: a float32 between -256 *)
(* and 256 is a whole number of 2^-17 (m = 0), and the float64 sums of the *)
(* inverse lie off that grid by the difference between the float64 and the *)
(* float32 value of the mean added.                                        *)

\* 2^17: units per 1.0.
Unit == 131072
\* 2^24: below it every whole number of units is a float32.
F32Exact == 16777216

Abs(k) == IF k < 0 THEN -k ELSE k

\* Round a whole number of units to float32, ties to even. From 128.0 up to
\* 256.0 the float32 spacing is two units.
F32Round(k) ==
    IF Abs(k) < F32Exact \/ k % 2 = 0
    THEN k
    ELSE IF (k + 1) % 4 = 0 THEN k + 1 ELSE k - 1

\* The literals 103.939, 116.779, 123.68 as float32, in units, by the index
\* they are applied to.
Mean32_0 == 13623493
Mean32_1 == 15306457
Mean32_2 == 16210985
MEAN32 == <<Mean32_0, Mean32_1, Mean32_2>>

\* The same literals as float64, less their float32 value, in thousandths of
\* a unit.
MeanOff_0 == -392
MeanOff_1 == 88
MeanOff_2 == -40
MEANOFF == <<MeanOff_0, MeanOff_1, MeanOff_2>>

\* np.asarray(image, dtype='float32'): the 8-bit values as float32.
AsFloat32(p) == [c \in 1..3 |-> [u |-> p[c] * Unit, m |-> 0]]

\* a[:, :, :, ::-1]: the channel axis reversed.
ReverseChannels(a) == [c \in 1..3 |-> a[4 - c]]

\* a[:, :, :, k] -= mean_k for k = 0, 1, 2, in float32.
SubtractMeans(a) ==
    [c \in 1..3 |-> [u |-> F32Round(a[c].u - MEAN32[c]), m |-> 0]]

\* x[:, :, k] += mean_k for k = 0, 1, 2, in the array's own element type.
AddMeans(a, t) ==
    [c \in 1..3 |->
        IF t = "float32"
        THEN [u |-> F32Round(a[c].u + MEAN32[c]), m |-> 0]
        ELSE [u |-> a[c].u + MEAN32[c], m |-> a[c].m + MEANOFF[c]]]

\* The whole units at or below an element.
FloorUnits(e) == e.u + (IF e.m < 0 THEN -1 ELSE 0)

\* np.clip(x, 0, 255).astype('uint8'): clip, then drop the fraction.
ClipCast(a) ==
    [c \in 1..3 |->
        IF FloorUnits(a[c]) < 0 THEN 0
        ELSE IF FloorUnits(a[c]) >= 255 * Unit THEN 255
        ELSE FloorUnits(a[c]) \div Unit]

\* The pixels tried: one channel takes every 8-bit value while the other two
\* take the extreme values.
EdgeVals == {0, 255}
Pixels ==
    UNION { { [c \in 1..3 |-> IF c = k THEN v ELSE e[c]] :
                v \in 0..255, e \in [1..3 -> EdgeVals] } : k \in 1..3 }

\* Lines 75-76: the loaded image as a float32 array.
Load ==
    /\ ppc = "image"
    /\ arr' = AsFloat32(img)
    /\ dtype' = "float32"
    /\ ppc' = "loaded"
    /\ UNCHANGED <<img, out>>
    /\ UNCHANGED <<evVars, drvVars, btVars, slVars, tvVars>>

\* Lines 97-99 (and 102-104, 107-109): the means are subtracted in place.
Subtract ==
    /\ ppc = "loaded"
    /\ arr' = SubtractMeans(arr)
    /\ ppc' = "centred"
    /\ UNCHANGED <<img, dtype, out>>
    /\ UNCHANGED <<evVars, drvVars, btVars, slVars, tvVars>>

\* Line 100 (and 105, 110): the channels are reversed.
Flip ==
    /\ ppc = "centred"
    /\ arr' = ReverseChannels(arr)
    /\ ppc' = "prepared"
    /\ UNCHANGED <<img, dtype, out>>
    /\ UNCHANGED <<evVars, drvVars, btVars, slVars, tvVars>>

\* The vector handed to the inverse comes out of the optimizer as float64;
\* a float32 converts to float64 without change.
AsFloat64 ==
    /\ ppc = "prepared"
    /\ dtype = "float32"
    /\ dtype' = "float64"
    /\ UNCHANGED <<img, arr, ppc, out>>
    /\ UNCHANGED <<evVars, drvVars, btVars, slVars, tvVars>>

\* Mutant: the inverse does not reverse the channels.
Unflip_Missing ==
    /\ ppc = "prepared"
    /\ arr' = arr
    /\ ppc' = "unflipped"
    /\ UNCHANGED <<img, dtype, out>>
    /\ UNCHANGED <<evVars, drvVars, btVars, slVars, tvVars>>

\* Line 344: the channels are reversed back.
Unflip ==
    /\ ppc = "prepared"
    /\ arr' = ReverseChannels(arr)
    /\ ppc' = "unflipped"
    /\ UNCHANGED <<img, dtype, out>>
    /\ UNCHANGED <<evVars, drvVars, btVars, slVars, tvVars>>

\* Lines 345-347: the means are added back in place.
AddBack ==
    /\ ppc = "unflipped"
    /\ arr' = AddMeans(arr, dtype)
    /\ ppc' = "added"
    /\ UNCHANGED <<img, dtype, out>>
    /\ UNCHANGED <<evVars, drvVars, btVars, slVars, tvVars>>

\* Line 348: clip to [0, 255] and cast to 8 bits.
Finish ==
    /\ ppc = "added"
    /\ out' = ClipCast(arr)
    /\ ppc' = "restored"
    /\ UNCHANGED <<img, arr, dtype>>
    /\ UNCHANGED <<evVars, drvVars, btVars, slVars, tvVars>>

InitPre ==
    /\ EvaluatorFresh
    /\ DriverIdle
    /\ BatchIdle
    /\ StyleIdle
    /\ TVIdle
    /\ img \in Pixels
    /\ arr = <<>>
    /\ dtype = "none"
    /\ ppc = "image"
    /\ out = <<>>

NextPre ==
    \/ Load
    \/ Subtract
    \/ Flip
    \/ AsFloat64
    \/ Unflip
    \/ AddBack
    \/ Finish

SpecPre == InitPre /\ [][NextPre]_vars

\* C3: preprocessing followed by the inverse step gives the image back, each
\* value in its own channel and at most 1 away from the original.
C3_RoundTrip ==
    (ppc = "restored") =>
        \A c \in 1..3 : out[c] - img[c] \in {-1, 0, 1}

\* A round trip through the float64 inverse that lost one level in the red
\* channel, on a pixel whose red and blue differ by more than that.
C3_Witness ==
    /\ ppc = "restored"
    /\ dtype = "float64"
    /\ out[1] = img[1] - 1
    /\ out[2] = img[2]
    /\ Abs(img[1] - img[3]) > 1

\* C4: after preprocessing the array is in BGR order and each colour has had
\* its own mean subtracted: blue 103.939, green 116.779, red 123.68.
C4_OwnMeanSubtracted ==
    (ppc = "prepared") =>
        /\ arr[1].u = F32Round(img[3] * Unit - Mean32_0)
        /\ arr[2].u = F32Round(img[2] * Unit - Mean32_1)
        /\ arr[3].u = F32Round(img[1] * Unit - Mean32_2)

-----------------------------------------------------------------------------
(* The input tensor and the feature slices taken from the network layers.  *)
(* An image is a record of the role it plays and of its content; the       *)
(* network maps every batch entry on its own, so the activation of a layer *)
(* in slot k is that layer's feature of the image in slot k.               *)

\* Bound on the contents tried for each image: 0..MaxImg.
MaxImg == 3
ImageData == 0..MaxImg

\* combination_image = backend.placeholder(...): it holds no data yet.
combination_image == [role |-> "combination", data |-> 0]

feature_layers == <<"block1_conv2", "block2_conv2", "block3_conv3">>

\* layers[name]: the output of layer name for the batch t.
LayerOutput(name, t) == [k \in 1..Len(t) |-> [layer |-> name, of |-> t[k]]]

\* t[j, :, :, :]: the entry of batch index j, counted from 0.
Slice(t, j) == t[j + 1]

\* Lines 117-130: the backend variables are concatenated along the batch axis.
Concatenate ==
    /\ bpc = "images"
    /\ input_tensor' = <<content_image, style_image, combination_image, style_image2>>
    /\ bpc' = "tensor"
    /\ UNCHANGED <<content_image, style_image, style_image2, layerIdx,
                   content_image_features, combination_features,
                   style_features, style_features2, terms>>
    /\ UNCHANGED <<evVars, drvVars, ppVars, slVars, tvVars>>

\* Lines 194-199: the content loss term, from block2_conv2.
ContentBlock ==
    /\ bpc = "tensor"
    /\ LET layer_features == LayerOutput("block2_conv2", input_tensor) IN
        /\ content_image_features' = Slice(layer_features, 0)
        /\ combination_features' = Slice(layer_features, 2)
        /\ terms' = Append(terms, [kind |-> "content",
                                   target |-> Slice(layer_features, 0),
                                   combination |-> Slice(layer_features, 2)])
    /\ bpc' = "style"
    /\ UNCHANGED <<content_image, style_image, style_image2, input_tensor,
                   layerIdx, style_features, style_features2>>
    /\ UNCHANGED <<evVars, drvVars, ppVars, slVars, tvVars>>

\* Mutant: the combination features are read from batch index 3.
StyleLayer_Index3 ==
    /\ bpc = "style"
    /\ layerIdx < Len(feature_layers)
    /\ LET layer_features == LayerOutput(feature_layers[layerIdx + 1], input_tensor) IN
        /\ style_features' = Slice(layer_features, 1)
        /\ style_features2' = Slice(layer_features, 3)
        /\ combination_features' = Slice(layer_features, 3)
        /\ terms' = terms \o
              << [kind |-> "style", target |-> Slice(layer_features, 1),
                  combination |-> Slice(layer_features, 3)],
                 [kind |-> "style2", target |-> Slice(layer_features, 3),
                  combination |-> Slice(layer_features, 3)] >>
    /\ layerIdx' = layerIdx + 1
    /\ UNCHANGED <<content_image, style_image, style_image2, input_tensor, bpc,
                   content_image_features>>
    /\ UNCHANGED <<evVars, drvVars, ppVars, slVars, tvVars>>

\* Lines 240-249: one pass of the loop over feature_layers, adding the two
\* style loss terms of the layer.
StyleLayer ==
    /\ bpc = "style"
    /\ layerIdx < Len(feature_layers)
    /\ LET layer_features == LayerOutput(feature_layers[layerIdx + 1], input_tensor) IN
        /\ style_features' = Slice(layer_features, 1)
        /\ style_features2' = Slice(layer_features, 3)
        /\ combination_features' = Slice(layer_features, 2)
        /\ terms' = terms \o
              << [kind |-> "style", target |-> Slice(layer_features, 1),
                  combination |-> Slice(layer_features, 2)],
                 [kind |-> "style2", target |-> Slice(layer_features, 3),
                  combination |-> Slice(layer_features, 2)] >>
    /\ layerIdx' = layerIdx + 1
    /\ UNCHANGED <<content_image, style_image, style_image2, input_tensor, bpc,
                   content_image_features>>
    /\ UNCHANGED <<evVars, drvVars, ppVars, slVars, tvVars>>

\* The loop over feature_layers is exhausted.
StyleDone ==
    /\ bpc = "style"
    /\ layerIdx = Len(feature_layers)
    /\ bpc' = "built"
    /\ UNCHANGED <<content_image, style_image, style_image2, input_tensor,
                   layerIdx, content_image_features, combination_features,
                   style_features, style_features2, terms>>
    /\ UNCHANGED <<evVars, drvVars, ppVars, slVars, tvVars>>

InitBatch ==
    /\ EvaluatorFresh
    /\ DriverIdle
    /\ PreprocessIdle
    /\ StyleIdle
    /\ TVIdle
    /\ \E c, s1, s2 \in ImageData :
        /\ content_image = [role |-> "content", data |-> c]
        /\ style_image = [role |-> "style", data |-> s1]
        /\ style_image2 = [role |-> "style2", data |-> s2]
    /\ input_tensor = <<>>
    /\ bpc = "images"
    /\ layerIdx = 0
    /\ content_image_features = NoFeature
    /\ combination_features = NoFeature
    /\ style_features = NoFeature
    /\ style_features2 = NoFeature
    /\ terms = <<>>

NextBatch ==
    \/ Concatenate
    \/ ContentBlock
    \/ StyleLayer
    \/ StyleDone

SpecBatch == InitBatch /\ [][NextBatch]_vars

\* Every slice taken so far reads the slot that holds the image of its role.
SlicesReadOwnRole ==
    /\ content_image_features \in {NoFeature, [layer |-> "block2_conv2", of |-> content_image]}
    /\ combination_features.of \in {NoImage, combination_image}
    /\ style_features.of \in {NoImage, style_image}
    /\ style_features2.of \in {NoImage, style_image2}
    /\ \A k \in 1..Len(terms) :
          /\ terms[k].combination.of = combination_image
          /\ terms[k].combination.layer = terms[k].target.layer
          /\ terms[k].target.of =
                CASE terms[k].kind = "content" -> content_image
                  [] terms[k].kind = "style" -> style_image
                  [] terms[k].kind = "style2" -> style_image2

\* The batch index of the image playing role r, counted from 0.
SlotOf(r) == (CHOOSE k \in 1..Len(input_tensor) : input_tensor[k].role = r) - 1

\* C5 as stated: content in slot 0, style image i in slot i (style 1 in slot
\* 1, style 2 in slot 2), and every slice reads the slot of its role.
C5_StyleSlotIsItsNumber ==
    (bpc # "images") =>
        /\ SlotOf("content") = 0
        /\ SlotOf("style") = 1
        /\ SlotOf("style2") = 2
        /\ SlicesReadOwnRole

\* C5 amended: content in slot 0, style 1 in slot 1, the combination image
\* in the fixed slot 2, style 2 in the last slot 3, and every slice reads the
\* slot of its role.
C5_BatchLayout ==
    (bpc # "images") =>
        /\ Len(input_tensor) = 4
        /\ SlotOf("content") = 0
        /\ SlotOf("style") = 1
        /\ SlotOf("combination") = 2
        /\ SlotOf("style2") = 3
        /\ SlicesReadOwnRole

\* The loss is built from three different images: one content term and two
\* style terms for each of the three layers.
C5_Witness ==
    /\ bpc = "built"
    /\ Len(terms) = 7
    /\ content_image.data # style_image.data
    /\ style_image.data # style_image2.data
    /\ style_features2.layer = "block3_conv3"

-----------------------------------------------------------------------------
(* The style loss. A feature map is a function [h][w][c]; the value        *)
(* returned is the fraction num/den.                                       *)

\* Image size: the script's 512 by 512, scaled down.
height == 2
width == 2

\* Bounds on the feature maps tried: their shape and their activations.
MaxFH == 2
MaxFW == 2
MaxFC == 2
MaxFeat == 1

RECURSIVE SumSeq(_)
SumSeq(q) == IF q = <<>> THEN 0 ELSE Head(q) + SumSeq(Tail(q))

RECURSIVE Concat(_)
Concat(qq) == IF qq = <<>> THEN <<>> ELSE Head(qq) \o Concat(Tail(qq))

\* backend.permute_dimensions(x, (2, 0, 1)): [h][w][c] to [c][h][w].
PermuteDimensions201(f) ==
    [c \in 1..Len(f[1][1]) |-> [h \in 1..Len(f) |-> [w \in 1..Len(f[1]) |-> f[h][w][c]]]]

\* backend.batch_flatten: every entry of the first axis flattened, row-major.
BatchFlatten(y) == [c \in 1..Len(y) |-> Concat(y[c])]

\* backend.transpose of a matrix.
Transpose(m) == [k \in 1..Len(m[1]) |-> [r \in 1..Len(m) |-> m[r][k]]]

\* backend.dot of two matrices.
Dot(m, n) ==
    [r \in 1..Len(m) |-> [k \in 1..Len(n[1]) |->
        SumSeq([j \in 1..Len(n) |-> m[r][j] * n[j][k]])]]

gram_matrix(f) ==
    LET features == BatchFlatten(PermuteDimensions201(f)) IN
    Dot(features, Transpose(features))

\* backend.sum(backend.square(S - C)) for two matrices of one shape.
SumSquareDiff(S, C) ==
    SumSeq([r \in 1..Len(S) |->
        SumSeq([k \in 1..Len(S[1]) |-> (S[r][k] - C[r][k]) * (S[r][k] - C[r][k])])])

style_loss(style, combination) ==
    LET S == gram_matrix(style)
        C == gram_matrix(combination)
        channels == 3
        size == height * width
    IN [num |-> SumSquareDiff(S, C),
        den |-> 4 * (channels * channels) * (size * size)]

FeatureMaps(fh, fw, fc) == [1..fh -> [1..fw -> [1..fc -> 0..MaxFeat]]]

\* Lines 246-247: sl = style_loss(style_features, combination_features).
ApplyStyleLoss ==
    /\ spc = "features"
    /\ sl' = Some(style_loss(styleFeat, comboFeat))
    /\ spc' = "computed"
    /\ UNCHANGED <<styleFeat, comboFeat>>
    /\ UNCHANGED <<evVars, drvVars, ppVars, btVars, tvVars>>

InitStyle ==
    /\ EvaluatorFresh
    /\ DriverIdle
    /\ PreprocessIdle
    /\ BatchIdle
    /\ TVIdle
    /\ \E fh \in 1..MaxFH, fw \in 1..MaxFW, fc \in 1..MaxFC :
        /\ styleFeat \in FeatureMaps(fh, fw, fc)
        /\ comboFeat \in FeatureMaps(fh, fw, fc)
    /\ sl = None
    /\ spc = "features"

NextStyle == ApplyStyleLoss

SpecStyle == InitStyle /\ [][NextStyle]_vars

\* The Gram matrix entry of channels a and b, summed over the positions.
GramEntry(f, a, b) ==
    SumSeq([h \in 1..Len(f) |-> SumSeq([w \in 1..Len(f[1]) |-> f[h][w][a] * f[h][w][b]])])

GramDistance(f, g) ==
    SumSeq([a \in 1..Len(f[1][1]) |-> SumSeq([b \in 1..Len(f[1][1]) |->
        (GramEntry(f, a, b) - GramEntry(g, a, b)) * (GramEntry(f, a, b) - GramEntry(g, a, b))])])

\* C6: style_loss is the sum of the squared differences of the two Gram
\* matrices divided by 4 * C^2 * (H*W)^2, C, H and W being the shape of the
\* feature map; so style_loss(f, f) = 0.
C6_NormalisedByFeatureShape ==
    (spc = "computed") =>
        LET C == Len(styleFeat[1][1])
            HW == Len(styleFeat) * Len(styleFeat[1])
        IN /\ sl[1].num * (4 * (C * C) * (HW * HW))
                  = GramDistance(styleFeat, comboFeat) * sl[1].den
           /\ sl[1].den > 0
           /\ (styleFeat = comboFeat) => sl[1].num = 0

-----------------------------------------------------------------------------
(* The total variation loss. An image is a function [h][w][c] of whole     *)
(* numbers; the value returned is in tenths, rounded down term by term.    *)

\* Bound on the pixel values tried: 0..MaxPix.
MaxPix == 1
\* Tenths: the fixed point of the powers.
PowScale == 10

\* backend.pow(s, 1.25) for a whole s >= 0, in units of 1/PowScale, rounded
\* down: the largest r with (r / PowScale)^4 <= s^5; it lies between s and 2s.
Pow125(s) ==
    LET X == s * s * s * s * s * (PowScale * PowScale * PowScale * PowScale)
    IN CHOOSE r \in (s * PowScale)..(2 * s * PowScale) :
          /\ r * r * r * r <= X
          /\ (r + 1) * (r + 1) * (r + 1) * (r + 1) > X

Square(d) == d * d

\* Mutant: the horizontal differences are left out.
total_variation_loss_NoWidthTerm(xx) ==
    LET a == [h \in 1..(height - 1) |-> [w \in 1..(width - 1) |-> [c \in 1..3 |->
                Square(xx[h][w][c] - xx[h + 1][w][c])]]]
    IN SumSeq([h \in 1..(height - 1) |-> SumSeq([w \in 1..(width - 1) |->
           SumSeq([c \in 1..3 |-> Pow125(a[h][w][c])])])])

\* a and b are taken on rows 0..height-2 and columns 0..width-2.
total_variation_loss(xx) ==
    LET a == [h \in 1..(height - 1) |-> [w \in 1..(width - 1) |-> [c \in 1..3 |->
                Square(xx[h][w][c] - xx[h + 1][w][c])]]]
        b == [h \in 1..(height - 1) |-> [w \in 1..(width - 1) |-> [c \in 1..3 |->
                Square(xx[h][w][c] - xx[h][w + 1][c])]]]
    IN SumSeq([h \in 1..(height - 1) |-> SumSeq([w \in 1..(width - 1) |->
           SumSeq([c \in 1..3 |-> Pow125(a[h][w][c] + b[h][w][c])])])])

\* The images tried: one channel takes every pattern of pixel values, the
\* other two are constant.
TVImages(rows, cols) ==
    { [h \in 1..rows |-> [w \in 1..cols |-> [c \in 1..3 |->
          IF c = ch THEN g[h][w] ELSE base]]] :
        ch \in 1..3, base \in 0..MaxPix,
        g \in [1..rows -> [1..cols -> 0..MaxPix]] }

\* Line 267: total_variation_loss(combination_image).
ApplyTV ==
    /\ tpc = "image"
    /\ tv' = Some(total_variation_loss(tvx))
    /\ tpc' = "computed"
    /\ UNCHANGED tvx
    /\ UNCHANGED <<evVars, drvVars, ppVars, btVars, slVars>>

InitTV ==
    /\ EvaluatorFresh
    /\ DriverIdle
    /\ PreprocessIdle
    /\ BatchIdle
    /\ StyleIdle
    /\ tvx \in TVImages(height, width)
    /\ tv = None
    /\ tpc = "image"

NextTV == ApplyTV

SpecTV == InitTV /\ [][NextTV]_vars

SpatiallyConstant(xx) ==
    \A h \in 1..height, w \in 1..width, c \in 1..3 : xx[h][w][c] = xx[1][1][c]

\* Some forward difference between vertically or horizontally adjacent
\* pixels is not zero, the last row and the last column included.
HasForwardDifference(xx) ==
    \E h \in 1..height, w \in 1..width, c \in 1..3 :
        \/ h < height /\ xx[h][w][c] # xx[h + 1][w][c]
        \/ w < width /\ xx[h][w][c] # xx[h][w + 1][c]

\* Some forward difference taken at a pixel that is in neither the last row
\* nor the last column is not zero.
HasInnerForwardDifference(xx) ==
    \E h \in 1..(height - 1), w \in 1..(width - 1), c \in 1..3 :
        \/ xx[h][w][c] # xx[h + 1][w][c]
        \/ xx[h][w][c] # xx[h][w + 1][c]

\* C7 as stated: the loss is 0 for a spatially constant image and positive
\* for an image with any non-zero forward difference, those that involve a
\* pixel of the last row or column (the bottom-right corner) included.
C7_PositiveOnAnyDifference ==
    (tpc = "computed") =>
        /\ SpatiallyConstant(tvx) => tv[1] = 0
        /\ HasForwardDifference(tvx) => tv[1] > 0

\* C7 amended: the loss is 0 for a spatially constant image and positive for
\* an image with a non-zero forward difference taken at a pixel outside the
\* last row and the last column.
C7_PositiveOnInnerDifference ==
    (tpc = "computed") =>
        /\ SpatiallyConstant(tvx) => tv[1] = 0
        /\ HasInnerForwardDifference(tvx) => tv[1] > 0

\* A positive loss that comes from a horizontal difference alone, between a
\* pixel of the first column and its right neighbour.
C7_Witness ==
    /\ tpc = "computed"
    /\ tv[1] > 0
    /\ \A c \in 1..3 : tvx[1][1][c] = tvx[2][1][c]
    /\ \E c \in 1..3 : tvx[1][1][c] # tvx[1][2][c]

====
